---------------------------- MODULE Spec2Model ----------------------------
(***************************************************************************)
(* Scholarship DSS: the scoring engine (dss_engine.py, ScholarshipDSS) and *)
(* the dashboard rerun that drives it (streamlit_app.py, main).            *)
(*                                                                         *)
(* Numbers are fixed point.  A score or a normalized feature is an integer *)
(* number of hundredths (80.00 is 8000); an unrounded component score is   *)
(* an integer number of thousandths; a weight is an integer number of      *)
(* millionths (0.40 is 400000).  Products of a score and a weight do not   *)
(* fit TLC's 32-bit integers, so they are kept as a pair (hi, lo) that     *)
(* stands for hi * Kilo + lo with lo in 0..Kilo-1.  The arithmetic is      *)
(* exact; the code's binary floating point differs from it only by errors  *)
(* of the order of 1e-13.                                                  *)
(***************************************************************************)
EXTENDS Integers, Sequences, FiniteSets, TLC

VARIABLES
    df_enhanced,        \* the enhanced raw table handed to preprocess_data
    df_processed,       \* the preprocessed applicant table (the engine's input)
    dss,                \* the ScholarshipDSS instance: its three weights
    error,              \* the exception raised by the last call, if any
    have,               \* which results the caller holds so far
    df_scored,          \* result of calculate_final_score
    df_decision,        \* result of apply_decision_rules
    df_ranked,          \* result of rank_applicants
    explanation,        \* result of get_score_explanation
    tie_order,          \* how this build's unstable sort orders equal keys
    numpy_promotion,    \* whether this build's numpy promotes int to str
    init_args,          \* the weights handed to the last constructor call
    uploaded_file,      \* dashboard: the file_uploader widget
    session,            \* dashboard: st.session_state
    academic_slider,    \* dashboard: the three weight sliders (percent)
    financial_slider,
    engagement_slider,
    full_threshold,     \* dashboard: the two threshold sliders
    partial_threshold,
    view                \* dashboard: what the last rerun displayed

vars == <<df_enhanced, df_processed, dss, error, have, df_scored,
          df_decision, df_ranked, explanation, tie_order, numpy_promotion, init_args,
          uploaded_file, session, academic_slider,
          financial_slider, engagement_slider, full_threshold,
          partial_threshold, view>>

engineVars == <<df_processed, dss, error, have, df_scored, df_decision,
                df_ranked, explanation, tie_order, numpy_promotion,
                init_args>>

appVars == <<df_enhanced, uploaded_file, session, academic_slider,
             financial_slider, engagement_slider, full_threshold,
             partial_threshold, view>>

---------------------------------------------------------------------------
(* Bounds of the model. *)

\* Longest applicant table handed to the engine.
MaxRows == 3

\* Longest applicant table uploaded to the dashboard.
MaxAppRows == 2

\* The dashboard's scoring passes against one loaded table are counted up
\* to this many.
MaxPasses == 2

\* Longest raw table handed to preprocess_data.
MaxRawRows == 2

---------------------------------------------------------------------------
(* Fixed-point scales and the float NaN. *)

\* Hundredths per unit: scores are rounded to 2 decimals.
Centi == 100

\* 100.00, the top of the score scale, in hundredths.
Hundred == 10000

\* Millionths per unit of weight.
WeightOne == 1000000

\* Radix of the (hi, lo) pairs that hold a product of a score and a weight.
Kilo == 1000

\* The float NaN that a missing value becomes; every comparison with it is
\* false and every sum or product with it is NaN.
NaN == -99999999

IsNaN(x) == x = NaN

Abs(x) == IF x < 0 THEN -x ELSE x

\* n / d rounded to the nearest integer, ties to the even one (numpy's round).
RoundHalfEven(n, d) ==
    LET q == n \div d
        r == n % d
    IN  IF 2 * r < d THEN q
        ELSE IF 2 * r > d THEN q + 1
        ELSE IF q % 2 = 0 THEN q ELSE q + 1

\* The exact product s * w as a pair.
Wide(s, w) ==
    LET low == s * (w % Kilo)
    IN  [hi |-> s * (w \div Kilo) + (low \div Kilo), lo |-> low % Kilo]

WideAdd(x, y) ==
    [hi |-> x.hi + y.hi + ((x.lo + y.lo) \div Kilo), lo |-> (x.lo + y.lo) % Kilo]

\* (x.hi * Kilo + x.lo) / (d * Kilo), rounded half to even.
WideRound(x, d) ==
    LET q == x.hi \div d
        r == (x.hi % d) * Kilo + x.lo
    IN  IF 2 * r < d * Kilo THEN q
        ELSE IF 2 * r > d * Kilo THEN q + 1
        ELSE IF q % 2 = 0 THEN q ELSE q + 1

---------------------------------------------------------------------------
(* ScholarshipDSS.__init__ *)

\* np.isclose's default tolerances: atol = 1e-8 (in units of 1e-8) and
\* rtol = 1e-5 (as its inverse).
isclose_atol == 1
isclose_rtol_inv == 100000

\* A stricter comparison: |a - b| <= 1e-6.
IsCloseMicro(a, b) == Abs(a - b) <= 1

\* np.isclose(a, b): |a - b| <= atol + rtol * |b|, for a and b in millionths.
\* Both sides are taken in units of 1e-8.
IsClose(a, b) ==
    Abs(a - b) * Centi <= isclose_atol + (Abs(b) * Centi) \div isclose_rtol_inv

\* The only validation the constructor performs (lines 28-30).
WeightsAccepted(academic_weight, financial_weight, engagement_weight) ==
    IsClose(academic_weight + financial_weight + engagement_weight, WeightOne)

NoDss ==
    [constructed |-> FALSE, academic_weight |-> 0, financial_weight |-> 0,
     engagement_weight |-> 0]

NoError == [raised |-> FALSE, kind |-> "", total |-> 0]

\* The instance a successful construction yields (lines 32-34).
NewDss(academic_weight, financial_weight, engagement_weight) ==
    [constructed |-> TRUE, academic_weight |-> academic_weight,
     financial_weight |-> financial_weight,
     engagement_weight |-> engagement_weight]

\* ValueError(f"Weights must sum to 1.0 (current: {total})") (line 30).
WeightError(academic_weight, financial_weight, engagement_weight) ==
    [raised |-> TRUE, kind |-> "ValueError",
     total |-> academic_weight + financial_weight + engagement_weight]

\* dss = ScholarshipDSS(a, f, e): on an exception the name is not rebound.
Construct(a, f, e) ==
    /\ IF WeightsAccepted(a, f, e)
          THEN /\ dss' = NewDss(a, f, e)
               /\ error' = NoError
          ELSE /\ dss' = dss
               /\ error' = WeightError(a, f, e)
    /\ init_args' = <<a, f, e>>
    /\ UNCHANGED <<df_processed, have, df_scored, df_decision, df_ranked,
                   explanation, tie_order, numpy_promotion>>
    /\ UNCHANGED appVars

---------------------------------------------------------------------------
(* The component score calculators and the final score. *)

\* Sub-weights of the calculators, in tenths.
performance_weight == 6
previous_weight == 4
income_weight == 7
education_weight == 3
attendance_weight == 5
extracurricular_weight == 3
practice_weight == 2

\* The neutral value .fillna(50) substitutes, in hundredths.
fillna_value == 5000

FillNa(x) == IF IsNaN(x) THEN fillna_value ELSE x

\* Unrounded academic score of a row, in thousandths.
calculate_academic_score(row) ==
    IF IsNaN(row.Performance_Index_normalized)
       \/ IsNaN(row.Previous_Scores_normalized)
    THEN NaN
    ELSE row.Performance_Index_normalized * performance_weight
         + row.Previous_Scores_normalized * previous_weight

\* 100 - ((parent_education_score - 1) / 2 * 100), in hundredths.
parent_ed_need(row) ==
    IF IsNaN(row.parent_education_score) THEN NaN
    ELSE Hundred - ((row.parent_education_score - 1) * Hundred) \div 2

\* A financial score without the fallback: a missing term makes it missing.
calculate_financial_score_propagating(row) ==
    IF IsNaN(row.income_need_score) \/ IsNaN(row.parent_education_score)
    THEN NaN
    ELSE row.income_need_score * income_weight
         + parent_ed_need(row) * education_weight

\* Unrounded financial score of a row, in thousandths.
calculate_financial_score(row) ==
    FillNa(row.income_need_score) * income_weight
    + FillNa(parent_ed_need(row)) * education_weight

\* Unrounded engagement score of a row, in thousandths.
calculate_engagement_score(row) ==
    IF IsNaN(row.attendance_percentage_normalized)
       \/ IsNaN(row.extracurricular_score)
       \/ IsNaN(row.Sample_Question_Papers_Practiced_normalized)
    THEN NaN
    ELSE row.attendance_percentage_normalized * attendance_weight
         + row.extracurricular_score * Hundred * extracurricular_weight
         + row.Sample_Question_Papers_Practiced_normalized * practice_weight

\* An unrounded component cut off after 2 decimals.
Round2Truncating(x) == IF IsNaN(x) THEN NaN ELSE x \div 10

\* Series.round(2) of an unrounded component, in hundredths.
Round2(x) == IF IsNaN(x) THEN NaN ELSE RoundHalfEven(x, 10)

\* The weighted combination of the unrounded components, rounded to 2
\* decimals (lines 120-127).  A NaN component makes it NaN even under a
\* zero weight.
WeightedFinal(a, f, e, d) ==
    IF IsNaN(a) \/ IsNaN(f) \/ IsNaN(e) THEN NaN
    ELSE WideRound(WideAdd(WideAdd(Wide(a, d.academic_weight),
                                   Wide(f, d.financial_weight)),
                           Wide(e, d.engagement_weight)),
                   10 * Kilo)

\* One row of calculate_final_score's result: the input columns plus the
\* four score columns.
ScoreRow(row, d) ==
    LET a == calculate_academic_score(row)
        f == calculate_financial_score(row)
        e == calculate_engagement_score(row)
    IN  [academic_score |-> Round2(a), financial_score |-> Round2(f),
         engagement_score |-> Round2(e),
         final_score |-> WeightedFinal(a, f, e, d)] @@ row

calculate_final_score(df, d) == [i \in 1..Len(df) |-> ScoreRow(df[i], d)]

\* The columns each calculator reads (lines 50-51, 72-75, 98-100).
AcademicColumns ==
    {"Performance_Index_normalized", "Previous_Scores_normalized"}

FinancialColumns == {"parent_education_score", "income_need_score"}

EngagementColumns ==
    {"attendance_percentage_normalized", "extracurricular_score",
     "Sample_Question_Papers_Practiced_normalized"}

RequiredColumns == AcademicColumns \cup FinancialColumns \cup EngagementColumns

\* The columns of a table; a table without rows is taken to have them all.
Columns(df) == IF Len(df) = 0 THEN RequiredColumns ELSE DOMAIN df[1]

\* The working table of calculate_final_score when df[column] raises
\* KeyError: the component columns assigned by lines 115-117 before the
\* failing calculator, still unrounded (thousandths).
ScoredBeforeFailure(df) ==
    [i \in 1..Len(df) |->
        IF ~(AcademicColumns \subseteq Columns(df)) THEN df[i]
        ELSE IF ~(FinancialColumns \subseteq Columns(df))
        THEN [academic_score |-> calculate_academic_score(df[i])] @@ df[i]
        ELSE [academic_score |-> calculate_academic_score(df[i]),
              financial_score |-> calculate_financial_score(df[i])] @@ df[i]]

\* A scoring call that hands back whatever it has computed.
ScoreOutcomePartial(df, d) ==
    IF RequiredColumns \subseteq Columns(df)
    THEN [raised |-> FALSE, work |-> calculate_final_score(df, d)]
    ELSE [raised |-> FALSE, work |-> ScoredBeforeFailure(df)]

\* The outcome of dss.calculate_final_score(df): the returned table, or the
\* KeyError of the first absent column, with the working table at that
\* point.
ScoreOutcome(df, d) ==
    IF RequiredColumns \subseteq Columns(df)
    THEN [raised |-> FALSE, work |-> calculate_final_score(df, d)]
    ELSE [raised |-> TRUE, work |-> ScoredBeforeFailure(df)]

\* A method that works on the caller's table itself.
CallerTableAfterInPlace(df, work) == work

\* The caller's table after a method has filled its working table: the
\* working table is df.copy() (lines 112, 146) or the new table that
\* sort_values returns (line 225), so the caller's table is as it was.
CallerTableAfter(df, work) == df

---------------------------------------------------------------------------
(* Classification: the engine's np.select and the dashboard's pd.cut. *)

\* The cut points written into apply_decision_rules, in hundredths.
rule_full == 8000
rule_partial == 6000

\* The award amounts.
full_amount == 10000
partial_amount == 5000

\* Float comparisons: false when the left side is NaN.
GE(x, y) == ~IsNaN(x) /\ x >= y
GT(x, y) == ~IsNaN(x) /\ x > y
LT(x, y) == ~IsNaN(x) /\ x < y
LE(x, y) == ~IsNaN(x) /\ x <= y

\* np.select(condlist, choicelist, default): the choice of the first true
\* condition, the default where none is true.
np_select(condlist, choicelist, default) ==
    LET hits == {k \in 1..Len(condlist) : condlist[k]}
    IN  IF hits = {} THEN default
        ELSE choicelist[CHOOSE k \in hits : \A m \in hits : k <= m]

\* Conditions with the full boundary exclusive.
DecisionConditionsExclusive(s) ==
    <<GT(s, rule_full), GE(s, rule_partial) /\ LE(s, rule_full),
      LT(s, rule_partial)>>

\* The three conditions of lines 149-153 (and 160-164).
DecisionConditions(s) ==
    <<GE(s, rule_full), GE(s, rule_partial) /\ LT(s, rule_full),
      LT(s, rule_partial)>>

\* np.select's default is the integer 0; among string choices it comes out
\* as the string "0".
Recommendation(s) ==
    np_select(DecisionConditions(s),
              <<"Full Scholarship", "Partial Scholarship", "Not Eligible">>,
              "0")

ScholarshipAmount(s) ==
    np_select(DecisionConditions(s), <<full_amount, partial_amount, 0>>, 0)

DecideRow(row) ==
    [recommendation |-> Recommendation(row.final_score),
     scholarship_amount |-> ScholarshipAmount(row.final_score)] @@ row

apply_decision_rules(df) == [i \in 1..Len(df) |-> DecideRow(df[i])]

\* pd.cut requires strictly increasing bin edges.
BinsIncrease(bins) == \A k \in 1..(Len(bins) - 1) : bins[k] < bins[k + 1]

\* pd.cut(x, bins, labels, include_lowest=True) with the default right=True:
\* the intervals are [b1, b2], (b2, b3], (b3, b4]; a value outside them, or
\* NaN, gets the missing category.
pd_cut(x, bins, labels) ==
    IF IsNaN(x) \/ x < bins[1] \/ x > bins[Len(bins)] THEN "nan"
    ELSE LET fits == {k \in 1..Len(labels) : x <= bins[k + 1]}
         IN  labels[CHOOSE k \in fits : \A m \in fits : k <= m]

\* The bins of lines 132 and 142, in hundredths.
DashboardBins(partial, full) == <<0, partial * Centi, full * Centi, Hundred>>

DashboardLabels == <<"Not Eligible", "Partial Scholarship", "Full Scholarship">>

\* df_scored['recommendation'] = pd.cut(...): the column is set in place.
CutRow(row, partial, full) ==
    [recommendation |->
        pd_cut(row.final_score, DashboardBins(partial, full), DashboardLabels)]
    @@ [c \in (DOMAIN row) \ {"recommendation"} |-> row[c]]

DashboardCut(df, partial, full) ==
    [i \in 1..Len(df) |-> CutRow(df[i], partial, full)]

---------------------------------------------------------------------------
(* rank_applicants *)

\* The order of sort_values('final_score', ascending=True): NaN keys last,
\* ties as the build leaves them.
PrecedesAscending(df, i, j, ties) ==
    LET x == df[i].final_score
        y == df[j].final_score
    IN  IF IsNaN(x) \/ IsNaN(y)
        THEN IF IsNaN(x) /\ IsNaN(y) THEN i < j ELSE IsNaN(y)
        ELSE IF x # y THEN x < y
        ELSE IF ties = "input" THEN i < j ELSE i > j

\* Whether row i of df precedes row j in sort_values('final_score',
\* ascending=False): NaN keys go last, in input order (na_position='last');
\* among equal keys the default kind='quicksort' promises no order, so the
\* order is the build's: tie_order is "input" when it keeps the input order
\* and "reversed" when it does not.
Precedes(df, i, j, ties) ==
    LET x == df[i].final_score
        y == df[j].final_score
    IN  IF IsNaN(x) \/ IsNaN(y)
        THEN IF IsNaN(x) /\ IsNaN(y) THEN i < j ELSE IsNaN(y)
        ELSE IF x # y THEN x > y
        ELSE IF ties = "input" THEN i < j ELSE i > j

\* The position (1-based) of row i in the sorted table.
SortedPosition(df, i, ties) ==
    1 + Cardinality({j \in 1..Len(df) : j # i /\ Precedes(df, j, i, ties)})

sort_values(df, ties) ==
    [p \in 1..Len(df) |->
        df[CHOOSE i \in 1..Len(df) : SortedPosition(df, i, ties) = p]]

\* df_ranked['rank'] = range(1, len(df_ranked) + 1)
rank_applicants(df, ties) ==
    LET sorted == sort_values(df, ties)
    IN  [p \in 1..Len(sorted) |-> [rank |-> p] @@ sorted[p]]

---------------------------------------------------------------------------
(* get_score_explanation *)

\* row[score] * weight, as a pair, in units of 1e-8 (hi in units of 1e-5).
Contribution(score, weight) ==
    IF IsNaN(score) THEN [hi |-> NaN, lo |-> 0] ELSE Wide(score, weight)

\* The explanation's fields that are computed from the scores; the raw
\* columns it copies for display are not part of the model's rows.
get_score_explanation(row, d) ==
    [final_score |-> row.final_score,
     recommendation |-> row.recommendation,
     academic |-> [score |-> row.academic_score,
                   weight |-> d.academic_weight,
                   contribution |-> Contribution(row.academic_score,
                                                 d.academic_weight)],
     financial |-> [score |-> row.financial_score,
                    weight |-> d.financial_weight,
                    contribution |-> Contribution(row.financial_score,
                                                  d.financial_weight)],
     engagement |-> [score |-> row.engagement_score,
                     weight |-> d.engagement_weight,
                     contribution |-> Contribution(row.engagement_score,
                                                   d.engagement_weight)]]

NoExplanation == [final_score |-> NaN]

---------------------------------------------------------------------------
(* Applicant tables. *)

\* A preprocessed applicant: the columns the engine reads, in hundredths
\* (parent_education_score is the ordinal 1..3, extracurricular_score is 0
\* or 1); NaN where preprocessing left a missing value.
Applicant(perf, prev, need, ped, att, extra, papers) ==
    [Performance_Index_normalized |-> perf,
     Previous_Scores_normalized |-> prev,
     income_need_score |-> need,
     parent_education_score |-> ped,
     attendance_percentage_normalized |-> att,
     extracurricular_score |-> extra,
     Sample_Question_Papers_Practiced_normalized |-> papers]

\* Every input at the top of its range.
TopApplicant == Applicant(10000, 10000, 10000, 1, 10000, 1, 10000)

\* Top marks and no financial need.
WealthyApplicant == Applicant(10000, 10000, 0, 3, 10000, 1, 10000)

\* Small inputs whose component scores are not whole hundredths.
FractionalApplicant == Applicant(0, 4, 22, 3, 5000, 0, 5000)

\* 'Extracurricular Activities' was neither 'Yes' nor 'No'.
NoActivitiesApplicant == Applicant(8000, 8000, 5000, 2, 8000, NaN, 8000)

\* Income and parent education are missing.
NoIncomeApplicant == Applicant(8000, 8000, NaN, NaN, 8000, 1, 8000)

Applicants ==
    {TopApplicant, WealthyApplicant, FractionalApplicant,
     NoActivitiesApplicant, NoIncomeApplicant}

\* A table of the given applicants; idx is the row's index label.
MakeTable(rows) == [i \in 1..Len(rows) |-> [idx |-> i] @@ rows[i]]

Tables(n) == {MakeTable(rows) : rows \in UNION {[1..k -> Applicants] : k \in 0..n}}

---------------------------------------------------------------------------
(* The engine driven directly: one instance, one table. *)

\* Weight triples a caller constructs the engine with, in millionths.
EngineWeights ==
    {<<400000, 400000, 200000>>, <<1000000, 0, 0>>, <<0, 1000000, 0>>,
     <<0, 0, 1000000>>, <<1300000, -300000, 0>>, <<1500000, -500000, 0>>,
     <<400000, 400000, 200005>>, <<500000, 500000, 500000>>}

NoFile == [present |-> FALSE, table |-> <<>>]

NoSession == [data_loaded |-> FALSE, df_processed |-> <<>>, last_file |-> NoFile]

NoView == [kind |-> "none", sidebar |-> "none", passes |-> 0]

AppIdle ==
    /\ df_enhanced = <<>>
    /\ uploaded_file = NoFile
    /\ session = NoSession
    /\ academic_slider = 40
    /\ financial_slider = 40
    /\ engagement_slider = 20
    /\ full_threshold = 80
    /\ partial_threshold = 60
    /\ view = NoView

Init ==
    /\ df_processed \in Tables(MaxRows)
    /\ dss = NoDss
    /\ error = NoError
    /\ have = {}
    /\ df_scored = <<>>
    /\ df_decision = <<>>
    /\ df_ranked = <<>>
    /\ explanation = NoExplanation
    /\ tie_order \in {"input", "reversed"}
    /\ numpy_promotion \in {"legacy", "strict"}
    /\ init_args = <<>>
    /\ AppIdle

\* The caller constructs its engine once.
EngineConstruct ==
    /\ ~dss.constructed
    /\ \E w \in EngineWeights : Construct(w[1], w[2], w[3])

\* df_scored = dss.calculate_final_score(df_processed)
CalculateFinalScore ==
    /\ dss.constructed
    /\ LET outcome == ScoreOutcome(df_processed, dss)
       IN  /\ IF outcome.raised
                 THEN /\ error' = [raised |-> TRUE, kind |-> "KeyError",
                                   total |-> 0]
                      /\ UNCHANGED <<df_scored, have>>
                 ELSE /\ df_scored' = outcome.work
                      /\ have' = have \cup {"df_scored"}
                      /\ error' = NoError
           /\ df_processed' = CallerTableAfter(df_processed, outcome.work)
    /\ UNCHANGED <<dss, df_decision, df_ranked, explanation,
                   tie_order, numpy_promotion, init_args>>
    /\ UNCHANGED appVars

\* df_decision = dss.apply_decision_rules(df_scored).  np.select is given
\* string choices and the integer default 0: a numpy that promotes the
\* integer to a string returns, one that refuses the promotion raises
\* TypeError before any row is classified.
ApplyDecisionRules ==
    /\ dss.constructed
    /\ "df_scored" \in have
    /\ IF numpy_promotion = "legacy"
          THEN /\ df_decision' = apply_decision_rules(df_scored)
               /\ have' = have \cup {"df_decision"}
               /\ error' = NoError
               /\ df_scored' = CallerTableAfter(df_scored,
                                    apply_decision_rules(df_scored))
          ELSE /\ error' = [raised |-> TRUE, kind |-> "TypeError", total |-> 0]
               /\ UNCHANGED <<df_decision, have, df_scored>>
    /\ UNCHANGED <<df_processed, dss, df_ranked, explanation,
                   tie_order, numpy_promotion, init_args>>
    /\ UNCHANGED appVars

Held(name) ==
    CASE name = "df_scored" -> df_scored
      [] name = "df_decision" -> df_decision
      [] name = "df_ranked" -> df_ranked

\* df_ranked = dss.rank_applicants(t) for a table t with a final_score
\* column.
RankApplicants(src) ==
    /\ dss.constructed
    /\ src \in have \cap {"df_scored", "df_decision"}
    /\ df_ranked' = rank_applicants(Held(src), tie_order)
    /\ have' = have \cup {"df_ranked"}
    /\ error' = NoError
    /\ IF src = "df_scored"
          THEN /\ df_scored' = CallerTableAfter(df_scored,
                                    rank_applicants(df_scored, tie_order))
               /\ UNCHANGED df_decision
          ELSE /\ df_decision' = CallerTableAfter(df_decision,
                                      rank_applicants(df_decision, tie_order))
               /\ UNCHANGED df_scored
    /\ UNCHANGED <<df_processed, dss, explanation,
                   tie_order, numpy_promotion, init_args>>
    /\ UNCHANGED appVars

\* explanation = dss.get_score_explanation(t.iloc[i]); a row without a
\* recommendation column raises KeyError.
GetScoreExplanation(src, i) ==
    /\ dss.constructed
    /\ src \in have \cap {"df_decision", "df_ranked"}
    /\ i \in 1..Len(Held(src))
    /\ IF "recommendation" \in DOMAIN Held(src)[i]
          THEN /\ explanation' = get_score_explanation(Held(src)[i], dss)
               /\ have' = have \cup {"explanation"}
               /\ error' = NoError
          ELSE /\ error' = [raised |-> TRUE, kind |-> "KeyError", total |-> 0]
               /\ UNCHANGED <<explanation, have>>
    /\ UNCHANGED <<df_processed, dss, df_scored, df_decision, df_ranked,
                   tie_order, numpy_promotion, init_args>>
    /\ UNCHANGED appVars

Next ==
    \/ EngineConstruct
    \/ CalculateFinalScore
    \/ ApplyDecisionRules
    \/ \E src \in {"df_scored", "df_decision"} : RankApplicants(src)
    \/ \E src \in {"df_decision", "df_ranked"} :
          \E i \in 1..MaxRows : GetScoreExplanation(src, i)

Spec == Init /\ [][Next]_vars

---------------------------------------------------------------------------
(* The constructor alone, over a grid of weight triples. *)

\* Academic and financial weights tried, in millionths.
GridAcademic == {-500000, 0, 400000, 1000000, 1500000}

GridFinancial == {-500000, 0, 400000, 600000, 1000000}

\* Engagement weights tried: a round value plus a small excess, so that the
\* sums fall on both sides of 1.0 at distances from 1e-6 to 1e-3.
GridEngagement ==
    {b + x : b \in {0, 200000, 1000000},
             x \in {-1000, -11, -10, -2, -1, 0, 1, 2, 5, 10, 11, 1000}}

InitConfig ==
    /\ df_processed = <<>>
    /\ dss = NoDss
    /\ error = NoError
    /\ have = {}
    /\ df_scored = <<>>
    /\ df_decision = <<>>
    /\ df_ranked = <<>>
    /\ explanation = NoExplanation
    /\ tie_order = "input"
    /\ numpy_promotion = "legacy"
    /\ init_args = <<>>
    /\ AppIdle

\* The caller tries triples until one is accepted.
NextConfig ==
    /\ ~dss.constructed
    /\ \E a \in GridAcademic, f \in GridFinancial, e \in GridEngagement :
          Construct(a, f, e)

SpecConfig == InitConfig /\ [][NextConfig]_vars

---------------------------------------------------------------------------
(* The two classification routines alone, over the whole score grid. *)

\* A scored table of one row whose final_score is s.
ScoredOnly(s) == <<[idx |-> 1, final_score |-> s]>>

\* The dashboard's classification of the caller's df_scored (lines 130-145):
\* the same pd.cut assignment, made twice.
ClassifyDashboard ==
    /\ "df_scored" \in have
    /\ BinsIncrease(DashboardBins(partial_threshold, full_threshold))
    /\ df_scored' = DashboardCut(DashboardCut(df_scored, partial_threshold,
                                              full_threshold),
                                 partial_threshold, full_threshold)
    /\ error' = NoError
    /\ UNCHANGED <<df_processed, dss, have, df_decision, df_ranked,
                   explanation, tie_order, numpy_promotion, init_args>>
    /\ UNCHANGED appVars

InitClassify ==
    /\ df_processed = <<>>
    /\ dss = NewDss(400000, 400000, 200000)
    /\ error = NoError
    /\ have = {"df_scored"}
    /\ df_scored \in {ScoredOnly(s) : s \in (0..Hundred) \cup {NaN}}
    /\ df_decision = <<>>
    /\ df_ranked = <<>>
    /\ explanation = NoExplanation
    /\ tie_order = "input"
    /\ numpy_promotion \in {"legacy", "strict"}
    /\ init_args = <<400000, 400000, 200000>>
    /\ AppIdle

NextClassify == ApplyDecisionRules \/ ClassifyDashboard

SpecClassify == InitClassify /\ [][NextClassify]_vars

---------------------------------------------------------------------------
(* Properties of classification (under SpecClassify). *)

FullPair == <<"Full Scholarship", 10000>>
PartialPair == <<"Partial Scholarship", 5000>>
NotEligiblePair == <<"Not Eligible", 0>>

DecisionPair(row) == <<row.recommendation, row.scholarship_amount>>

\* The pair the default thresholds 60 and 80 prescribe for a score.
PrescribedPair(s) ==
    IF s >= 8000 THEN FullPair
    ELSE IF s >= 6000 THEN PartialPair
    ELSE NotEligiblePair

\* C1: with the thresholds 60 and 80, every table apply_decision_rules
\* returns gives a row whose final_score s lies in [0, 100] Full
\* Scholarship and 10000 when s >= 80, Partial Scholarship and 5000 when
\* 60 <= s < 80, and Not Eligible and 0 when s < 60; 80.00 is Full, 79.99
\* and 60.00 are Partial, 59.99 is Not Eligible.
C1_ThresholdMapping ==
    "df_decision" \in have =>
        \A i \in 1..Len(df_decision) :
            LET s == df_decision[i].final_score
            IN  s \in 0..Hundred =>
                  /\ DecisionPair(df_decision[i]) = PrescribedPair(s)
                  /\ s = 8000 => DecisionPair(df_decision[i]) = FullPair
                  /\ s = 7999 => DecisionPair(df_decision[i]) = PartialPair
                  /\ s = 6000 => DecisionPair(df_decision[i]) = PartialPair
                  /\ s = 5999 => DecisionPair(df_decision[i]) = NotEligiblePair

\* A row scored exactly 80.00 has been classified as Full Scholarship.
C1_Witness ==
    /\ "df_decision" \in have
    /\ Len(df_decision) = 1
    /\ df_decision[1].final_score = 8000
    /\ DecisionPair(df_decision[1]) = FullPair

\* C2: for every final_score in [0, 100] and the thresholds 60 and 80, the
\* recommendation of apply_decision_rules equals the recommendation the
\* dashboard's pd.cut writes for the same row.
C2_PathsAgree ==
    "df_decision" \in have =>
        \A i \in 1..Len(df_decision) :
            ( /\ "recommendation" \in DOMAIN df_scored[i]
              /\ df_scored[i].final_score \in 0..Hundred )
            => df_decision[i].recommendation = df_scored[i].recommendation

---------------------------------------------------------------------------
(* Properties of the constructor (under SpecConfig). *)

Attempted == init_args # <<>>

AttemptedTotal == init_args[1] + init_args[2] + init_args[3]

C4_RejectsOutOfRange ==
    ( /\ Attempted
      /\ \E k \in 1..3 : init_args[k] < 0 \/ init_args[k] > WeightOne )
    => ~dss.constructed /\ error.raised

---------------------------------------------------------------------------
(* Properties of scoring, classification, ranking and explanation (under   *)
(* Spec).                                                                  *)

InRange(x) == ~IsNaN(x) /\ 0 <= x /\ x <= Hundred

\* The row's normalized inputs lie in [0, 100], its parent education
\* ordinal in {1, 2, 3} and its extracurricular indicator in {0, 1}.
InputsInRange(row) ==
    /\ InRange(row.Performance_Index_normalized)
    /\ InRange(row.Previous_Scores_normalized)
    /\ InRange(row.income_need_score)
    /\ row.parent_education_score \in {1, 2, 3}
    /\ InRange(row.attendance_percentage_normalized)
    /\ row.extracurricular_score \in {0, 1}
    /\ InRange(row.Sample_Question_Papers_Practiced_normalized)

\* C5: for every row with in-range inputs, whenever the weights sum to 1.0,
\* the three component scores and the final score lie in [0, 100].
C5_ScoresBounded ==
    ( /\ "df_scored" \in have
      /\ dss.academic_weight + dss.financial_weight + dss.engagement_weight
           = WeightOne )
    => \A i \in 1..Len(df_scored) :
          InputsInRange(df_scored[i]) =>
              /\ InRange(df_scored[i].academic_score)
              /\ InRange(df_scored[i].financial_score)
              /\ InRange(df_scored[i].engagement_score)
              /\ InRange(df_scored[i].final_score)

\* C6: every row of a classified table carries one of the three pairs
\* (Full Scholarship, 10000), (Partial Scholarship, 5000), (Not Eligible,
\* 0), rows whose final_score is not a number included.
C6_PairsValid ==
    "df_decision" \in have =>
        \A i \in 1..Len(df_decision) :
            DecisionPair(df_decision[i])
                \in {FullPair, PartialPair, NotEligiblePair}

\* The row of the table that was ranked from which a ranked row comes.
RankedSource(r) ==
    IF "recommendation" \in DOMAIN r THEN df_decision[r.idx]
    ELSE df_scored[r.idx]

\* C7: rank_applicants returns a permutation of its N input rows, ordered
\* by final_score non-increasing (rows without a score last), with rank
\* equal to the 1-based position; for N = 0 the result is empty and for
\* N = 1 the single row has rank 1.
C7_RankedPermutation ==
    "df_ranked" \in have =>
        /\ Len(df_ranked) = Len(df_scored)
        /\ \A i \in 1..Len(df_scored) :
              Cardinality({p \in 1..Len(df_ranked) : df_ranked[p].idx = i}) = 1
        /\ \A p \in 1..Len(df_ranked) :
              LET r == df_ranked[p]
              IN  /\ r.rank = p
                  /\ r.idx \in 1..Len(df_scored)
                  /\ DOMAIN r = DOMAIN RankedSource(r) \cup {"rank"}
                  /\ \A c \in DOMAIN RankedSource(r) : r[c] = RankedSource(r)[c]
        /\ \A p, q \in 1..Len(df_ranked) :
              p < q =>
                  /\ IsNaN(df_ranked[p].final_score)
                        => IsNaN(df_ranked[q].final_score)
                  /\ ~IsNaN(df_ranked[q].final_score)
                        => df_ranked[p].final_score >= df_ranked[q].final_score

\* A table of at least two rows has been ranked and its first input row is
\* not the first ranked row.
C7_Witness ==
    /\ "df_ranked" \in have
    /\ Len(df_ranked) >= 2
    /\ df_ranked[1].idx # 1
    /\ df_ranked[1].final_score > df_ranked[2].final_score

\* C8: of two ranked rows with equal final_score, the one that comes
\* earlier in the input table has the smaller rank.
C8_RankingStable ==
    "df_ranked" \in have =>
        \A p, q \in 1..Len(df_ranked) :
            ( /\ ~IsNaN(df_ranked[p].final_score)
              /\ df_ranked[p].final_score = df_ranked[q].final_score
              /\ df_ranked[p].idx < df_ranked[q].idx )
            => df_ranked[p].rank < df_ranked[q].rank

\* The sum of the three contributions of an explanation, as a pair in
\* units of 1e-8.
ContributionSum(ex) ==
    WideAdd(WideAdd(ex.academic.contribution, ex.financial.contribution),
            ex.engagement.contribution)

\* |hi * Kilo + lo - final_score| <= 0.01, the final score being in
\* hundredths and the pair in units of 1e-8.
WithinOneCent(sum, final_score) ==
    LET dh == sum.hi - final_score * Kilo
    IN  /\ dh >= -Kilo
        /\ dh < Kilo \/ (dh = Kilo /\ sum.lo = 0)

\* C9: the three contributions of an explanation sum to the row's
\* final_score within 0.01, for every scored row with a numeric score and
\* the weights that produced it.
C9_ContributionsSum ==
    ( /\ "explanation" \in have
      /\ ~IsNaN(explanation.final_score) )
    => WithinOneCent(ContributionSum(explanation), explanation.final_score)

---------------------------------------------------------------------------
(* The dashboard: every widget change reruns main() from the top. *)

\* Applicants in uploaded files.
AppApplicants == {TopApplicant, WealthyApplicant, NoActivitiesApplicant}

AppTables ==
    {MakeTable(rows) :
        rows \in UNION {[1..k -> AppApplicants] : k \in 0..MaxAppRows}}

\* Positions the weight sliders are moved to (percent; the sliders run from
\* 0 to 100 in steps of 5 and start at 40, 40, 20).
SliderStops == {0, 100}

\* Positions the full-threshold slider (70..95, initially 80) is moved to.
FullStops == {70, 80}

\* Positions the partial-threshold slider (50..full_threshold-1, initially
\* 60) is moved to.
PartialStops == {50, 60, 75}

\* The initial position of the partial-threshold slider.
partial_default == 60

\* processor.preprocess_data(processor.load_and_enhance_data(file)): a file
\* is represented by the preprocessed table it yields.
LoadAndPreprocess(file) == file.table

\* A slider's percent as the weight handed to the constructor (x / 100).
Percent(x) == x * (WeightOne \div 100)

\* A rerun that scored and sorted the session's table in place.
SessionAfterPassInPlace(table, ranked) ==
    [p \in 1..Len(ranked) |->
        [c \in DOMAIN table[p] |-> ranked[p][c]]]

\* st.session_state.df_processed after a scoring pass: calculate_final_score
\* works on df.copy() and sort_values returns a new table, so the session's
\* table is as it was loaded.
SessionAfterPass(table, ranked) == table

\* A total that leaves the engagement slider out.
total_weight_without_engagement(a, f, e) == a + f

\* total_weight = academic_weight + financial_weight + engagement_weight
\* (line 78), in percent.
total_weight(a, f, e) == a + f + e

\* The pass of lines 121-147 over a table.
ScoringPass(table, a, f, e, partial, full, ties) ==
    LET scored == calculate_final_score(
                      table, NewDss(Percent(a), Percent(f), Percent(e)))
        cut == DashboardCut(DashboardCut(scored, partial, full), partial, full)
    IN  [df_scored |-> cut, df_ranked |-> rank_applicants(cut, ties)]

\* One run of main() with the widgets at the given values.  The engine
\* variables are the script's locals at the end of the run.
Rerun(file, a, f, e, full, partial) ==
    LET reload == ~session.data_loaded \/ file # session.last_file
        loaded == IF reload
                  THEN [data_loaded |-> TRUE,
                        df_processed |-> LoadAndPreprocess(file),
                        last_file |-> file]
                  ELSE session
        sidebar == IF total_weight(a, f, e) # 100 THEN "error" ELSE "success"
        accepted == WeightsAccepted(Percent(a), Percent(f), Percent(e))
        pass == ScoringPass(loaded.df_processed, a, f, e, partial, full,
                            tie_order)
        binned == BinsIncrease(DashboardBins(partial, full))
        passes == IF reload THEN 1
                  ELSE IF view.passes < MaxPasses THEN view.passes + 1
                  ELSE MaxPasses
    IN  /\ uploaded_file' = file
        /\ academic_slider' = a
        /\ financial_slider' = f
        /\ engagement_slider' = e
        /\ full_threshold' = full
        /\ partial_threshold' = partial
        /\ explanation' = NoExplanation
        /\ df_decision' = <<>>
        /\ UNCHANGED <<tie_order, numpy_promotion, df_enhanced>>
        /\ IF ~file.present
           THEN /\ session' = session
                /\ view' = [kind |-> "info", sidebar |-> sidebar,
                            passes |-> view.passes]
                /\ df_processed' = <<>>
                /\ dss' = NoDss
                /\ init_args' = <<>>
                /\ error' = NoError
                /\ have' = {}
                /\ df_scored' = <<>>
                /\ df_ranked' = <<>>
           ELSE IF total_weight(a, f, e) # 100
           THEN /\ session' = loaded
                /\ view' = [kind |-> "warning", sidebar |-> sidebar,
                            passes |-> IF reload THEN 0 ELSE view.passes]
                /\ df_processed' = loaded.df_processed
                /\ dss' = NoDss
                /\ init_args' = <<>>
                /\ error' = NoError
                /\ have' = {}
                /\ df_scored' = <<>>
                /\ df_ranked' = <<>>
           ELSE IF ~accepted
           THEN /\ session' = loaded
                /\ view' = [kind |-> "exception", sidebar |-> sidebar,
                            passes |-> IF reload THEN 0 ELSE view.passes]
                /\ df_processed' = loaded.df_processed
                /\ dss' = NoDss
                /\ init_args' = <<Percent(a), Percent(f), Percent(e)>>
                /\ error' = WeightError(Percent(a), Percent(f), Percent(e))
                /\ have' = {}
                /\ df_scored' = <<>>
                /\ df_ranked' = <<>>
           ELSE IF ~binned
           THEN /\ session' = loaded
                /\ view' = [kind |-> "exception", sidebar |-> sidebar,
                            passes |-> IF reload THEN 0 ELSE view.passes]
                /\ df_processed' = loaded.df_processed
                /\ dss' = NewDss(Percent(a), Percent(f), Percent(e))
                /\ init_args' = <<Percent(a), Percent(f), Percent(e)>>
                /\ error' = [raised |-> TRUE, kind |-> "ValueError", total |-> 0]
                /\ have' = {"df_scored"}
                /\ df_scored' = calculate_final_score(loaded.df_processed,
                                    NewDss(Percent(a), Percent(f), Percent(e)))
                /\ df_ranked' = <<>>
           ELSE /\ session' = [loaded EXCEPT !.df_processed =
                                  SessionAfterPass(@, pass.df_ranked)]
                /\ view' = [kind |-> "results", sidebar |-> sidebar,
                            passes |-> passes]
                /\ df_processed' = loaded.df_processed
                /\ dss' = NewDss(Percent(a), Percent(f), Percent(e))
                /\ init_args' = <<Percent(a), Percent(f), Percent(e)>>
                /\ error' = NoError
                /\ have' = {"df_scored", "df_ranked"}
                /\ df_scored' = pass.df_scored
                /\ df_ranked' = pass.df_ranked

UploadFile(t) ==
    Rerun([present |-> TRUE, table |-> t], academic_slider, financial_slider,
          engagement_slider, full_threshold, partial_threshold)

RemoveFile ==
    /\ uploaded_file.present
    /\ Rerun(NoFile, academic_slider, financial_slider, engagement_slider,
             full_threshold, partial_threshold)

MoveAcademic(v) ==
    /\ v # academic_slider
    /\ Rerun(uploaded_file, v, financial_slider, engagement_slider,
             full_threshold, partial_threshold)

MoveFinancial(v) ==
    /\ v # financial_slider
    /\ Rerun(uploaded_file, academic_slider, v, engagement_slider,
             full_threshold, partial_threshold)

MoveEngagement(v) ==
    /\ v # engagement_slider
    /\ Rerun(uploaded_file, academic_slider, financial_slider, v,
             full_threshold, partial_threshold)

\* Moving the full slider with the partial slider left where it stands.
MoveFullKeepingPartial(v) ==
    /\ v # full_threshold
    /\ Rerun(uploaded_file, academic_slider, financial_slider,
             engagement_slider, v, partial_threshold)

\* The partial slider's max_value is full_threshold - 1: moving the full
\* slider makes it a new widget, which starts at its default.
MoveFull(v) ==
    /\ v # full_threshold
    /\ Rerun(uploaded_file, academic_slider, financial_slider,
             engagement_slider, v, partial_default)

MovePartial(v) ==
    /\ v # partial_threshold
    /\ v <= full_threshold - 1
    /\ Rerun(uploaded_file, academic_slider, financial_slider,
             engagement_slider, full_threshold, v)

\* The state after the first run of main(): no file, the widgets at their
\* defaults.
InitApp ==
    /\ df_processed = <<>>
    /\ dss = NoDss
    /\ error = NoError
    /\ have = {}
    /\ df_scored = <<>>
    /\ df_decision = <<>>
    /\ df_ranked = <<>>
    /\ explanation = NoExplanation
    /\ tie_order \in {"input", "reversed"}
    /\ numpy_promotion = "legacy"
    /\ init_args = <<>>
    /\ df_enhanced = <<>>
    /\ uploaded_file = NoFile
    /\ session = NoSession
    /\ academic_slider = 40
    /\ financial_slider = 40
    /\ engagement_slider = 20
    /\ full_threshold = 80
    /\ partial_threshold = partial_default
    /\ view = [kind |-> "info", sidebar |-> "success", passes |-> 0]

NextApp ==
    \/ \E t \in AppTables : UploadFile(t)
    \/ RemoveFile
    \/ \E v \in SliderStops : MoveAcademic(v)
    \/ \E v \in SliderStops : MoveFinancial(v)
    \/ \E v \in SliderStops : MoveEngagement(v)
    \/ \E v \in FullStops : MoveFull(v)
    \/ \E v \in PartialStops : MovePartial(v)

SpecApp == InitApp /\ [][NextApp]_vars

---------------------------------------------------------------------------
(* Properties of the dashboard (under SpecApp). *)

\* C10: whatever passes have run before against the loaded table, a pass
\* with given weights and thresholds shows exactly the scored, classified
\* and ranked table that the first pass with them on the table as loaded
\* yields.
C10_HistoryIndependent ==
    view.kind = "results" =>
        LET first == ScoringPass(LoadAndPreprocess(session.last_file),
                                 academic_slider, financial_slider,
                                 engagement_slider, partial_threshold,
                                 full_threshold, tie_order)
        IN  /\ df_ranked = first.df_ranked
            /\ df_scored = first.df_scored

\* At least two passes have run against a loaded table of two different
\* applicants whose final scores tie under the current weights.
C10_Witness ==
    /\ view.kind = "results"
    /\ view.passes >= 2
    /\ Len(df_ranked) = 2
    /\ df_ranked[1].final_score = df_ranked[2].final_score
    /\ df_ranked[1].financial_score # df_ranked[2].financial_score

---------------------------------------------------------------------------
(* The score calculators alone, over a grid of single applicants. *)

\* Values of the columns the calculators read, in hundredths: the ends of
\* the range, values that leave a component off the hundredths grid, and
\* the missing value where preprocessing can leave one.
GridPerformance == {0, 4, 3333, 10000}
GridPrevious == {0, 4, 10000}
GridIncomeNeed == {NaN, 0, 22, 10000}
GridParentEducation == {NaN, 1, 2, 3}
GridAttendance == {0, 1, 10000}
GridExtracurricular == {NaN, 0, 1}
GridPapers == {0, 10000}

ScoreGrid ==
    {Applicant(perf, prev, need, ped, att, extra, papers) :
        perf \in GridPerformance, prev \in GridPrevious,
        need \in GridIncomeNeed, ped \in GridParentEducation,
        att \in GridAttendance, extra \in GridExtracurricular,
        papers \in GridPapers}

\* A row of a table that lacks the column c.
WithoutColumn(row, c) == [k \in (DOMAIN row) \ {c} |-> row[k]]

\* Tables from which one of the columns the calculators read is absent.
IncompleteTables ==
    {MakeTable(<<WithoutColumn(row, c)>>) :
        row \in {TopApplicant, FractionalApplicant}, c \in RequiredColumns}

InitScore ==
    /\ df_processed \in {MakeTable(<<row>>) : row \in ScoreGrid}
                         \cup IncompleteTables
    /\ dss = NoDss
    /\ error = NoError
    /\ have = {}
    /\ df_scored = <<>>
    /\ df_decision = <<>>
    /\ df_ranked = <<>>
    /\ explanation = NoExplanation
    /\ tie_order = "input"
    /\ numpy_promotion = "legacy"
    /\ init_args = <<>>
    /\ AppIdle

NextScore == EngineConstruct \/ CalculateFinalScore

SpecScore == InitScore /\ [][NextScore]_vars

---------------------------------------------------------------------------
(* Properties of the score calculators (under SpecScore). *)

\* The financial score the fallback policy prescribes for a row, in
\* hundredths: 0.7 x income need + 0.3 x education need, a missing term
\* taken as 50.
PrescribedFinancial(row) ==
    LET income == IF row.income_need_score = NaN THEN 5000
                  ELSE row.income_need_score
        education == IF row.parent_education_score = NaN THEN 5000
                     ELSE 10000 - (row.parent_education_score - 1) * 5000
    IN  RoundHalfEven(7 * income + 3 * education, 10)

\* C11: in every scored table the financial score of a row is a number,
\* equal to 0.7 x income term + 0.3 x education term where a missing income
\* need counts as 50 and a missing parent-education ordinal as a need of
\* 50, and scoring such a row raises no error; a row without missing
\* values gets the plain weighted sum.
C11_FinancialFallback ==
    "df_scored" \in have =>
        /\ ~error.raised
        /\ \A i \in 1..Len(df_scored) :
              /\ ~IsNaN(df_scored[i].financial_score)
              /\ df_scored[i].financial_score
                    = PrescribedFinancial(df_processed[i])

\* A row whose income need is missing and whose parent education is High
\* School has been scored: 0.7 x 50 + 0.3 x 100 = 65.00.
C11_Witness ==
    /\ "df_scored" \in have
    /\ Len(df_scored) = 1
    /\ IsNaN(df_processed[1].income_need_score)
    /\ df_processed[1].parent_education_score = 1
    /\ df_scored[1].financial_score = 6500

---------------------------------------------------------------------------
(* Properties of the dashboard's thresholds (under SpecApp). *)

\* 0 <= partial < full <= 100, in percent.
ValidThresholds(partial, full) ==
    /\ 0 <= partial
    /\ partial < full
    /\ full <= 100

\* C12: whenever a rerun has constructed its engine, and so arrives at the
\* classification step, the pair of thresholds it classifies with satisfies
\* 0 <= partial_threshold < full_threshold <= 100, wherever the two
\* sliders have been moved; and no table carries a recommendation made
\* with a pair that violates it.
C12_ThresholdsValid ==
    /\ dss.constructed => ValidThresholds(partial_threshold, full_threshold)
    /\ ~ValidThresholds(partial_threshold, full_threshold) =>
          /\ view.kind # "results"
          /\ \A i \in 1..Len(df_scored) :
                "recommendation" \notin DOMAIN df_scored[i]

\* With the partial slider once at 75, the full slider has been moved down
\* to 70 and a table has been classified with the pair (60, 70).
C12_Witness ==
    /\ view.kind = "results"
    /\ full_threshold = 70
    /\ partial_threshold = 60
    /\ Len(df_scored) >= 1
    /\ df_scored[1].recommendation = "Full Scholarship"

---------------------------------------------------------------------------
(* Properties of the weighted combination (under SpecScore). *)

\* The three weights of the engine, in millionths.
Weights == <<dss.academic_weight, dss.financial_weight, dss.engagement_weight>>

\* C13: with the weights (1, 0, 0), (0, 1, 0) and (0, 0, 1) the final score
\* of every row with in-range inputs equals exactly the row's 2-decimal
\* academic, financial and engagement score respectively.
C13_UnitWeights ==
    "df_scored" \in have =>
        \A i \in 1..Len(df_scored) :
            InputsInRange(df_scored[i]) =>
                /\ Weights = <<1000000, 0, 0>> =>
                      df_scored[i].final_score = df_scored[i].academic_score
                /\ Weights = <<0, 1000000, 0>> =>
                      df_scored[i].final_score = df_scored[i].financial_score
                /\ Weights = <<0, 0, 1000000>> =>
                      df_scored[i].final_score = df_scored[i].engagement_score

\* Under the weights (1, 0, 0) a row whose academic score 0.016 rounds to
\* 0.02 has the final score 0.02, which is not its financial score.
C13_Witness ==
    /\ "df_scored" \in have
    /\ Weights = <<1000000, 0, 0>>
    /\ Len(df_scored) = 1
    /\ InputsInRange(df_scored[1])
    /\ df_scored[1].academic_score = 2
    /\ df_scored[1].final_score = 2
    /\ df_scored[1].financial_score # 2

---------------------------------------------------------------------------
(* Failure and frame properties of the engine's methods. *)

\* C14 (under SpecScore): a call of calculate_final_score on a table from
\* which a column read by a calculator is absent raises an error, hands
\* back no scored table, partial or with a substituted value, and leaves
\* the table it was given unchanged.  (Once the engine is constructed,
\* every step of SpecScore is such a call.)
C14_MissingColumnFails ==
    [][ ( /\ dss.constructed
          /\ ~(RequiredColumns \subseteq Columns(df_processed)) )
        => /\ error'.raised
           /\ error'.kind = "KeyError"
           /\ "df_scored" \notin have'
           /\ df_scored' = <<>>
           /\ df_processed' = df_processed ]_vars

\* Scoring a table without the income_need_score column has raised
\* KeyError and produced nothing.
C14_Witness ==
    /\ dss.constructed
    /\ Len(df_processed) = 1
    /\ "income_need_score" \notin DOMAIN df_processed[1]
    /\ "Performance_Index_normalized" \in DOMAIN df_processed[1]
    /\ error.raised
    /\ error.kind = "KeyError"
    /\ df_scored = <<>>

\* C15 (under Spec): no call of calculate_final_score, apply_decision_rules
\* or rank_applicants changes the table it is given (the preprocessed
\* table, the scored table, the classified table) or the three weights;
\* its result is another table, with the columns it adds, which its input
\* does not get.
C15_InputsUnchanged ==
    [][ /\ df_processed' = df_processed
        /\ dss.constructed => dss' = dss
        /\ "df_scored" \in have => df_scored' = df_scored
        /\ "df_decision" \in have => df_decision' = df_decision
        /\ \A i \in 1..Len(df_processed') :
              "final_score" \notin DOMAIN df_processed'[i]
        /\ \A i \in 1..Len(df_scored') :
              DOMAIN df_scored'[i] \cap {"scholarship_amount", "rank"} = {}
        /\ \A i \in 1..Len(df_decision') :
              "rank" \notin DOMAIN df_decision'[i] ]_vars

\* All three methods have run on a table of at least two rows, the ranking
\* has put another row first, and the scored table still starts with the
\* first input row.
C15_Witness ==
    /\ {"df_scored", "df_decision", "df_ranked"} \subseteq have
    /\ Len(df_ranked) >= 2
    /\ df_ranked[1].idx # 1
    /\ "recommendation" \in DOMAIN df_ranked[1]
    /\ df_scored[1].idx = 1
    /\ df_decision[1].idx = 1
    /\ df_processed[1].idx = 1

---------------------------------------------------------------------------
(* Properties of the dashboard's weight gate (under SpecApp). *)

\* The sum of the three weight sliders, in percent.
SliderSum == academic_slider + financial_slider + engagement_slider

\* C16: after any sequence of slider moves and uploads, the engine's
\* constructor has been called, an engine exists and results are shown only
\* when the three sliders sum to exactly 100; when they do and a file is
\* loaded, construction has succeeded with the sliders' weights; and when
\* they do not, no results are shown, the sidebar shows the error and, with
\* a file loaded, the main area shows the warning.
C16_ResultsGated ==
    /\ (init_args # <<>> \/ dss.constructed \/ view.kind = "results")
          => SliderSum = 100
    /\ (SliderSum = 100 /\ uploaded_file.present) =>
          /\ dss.constructed
          /\ ~error.raised
          /\ Weights = <<Percent(academic_slider), Percent(financial_slider),
                         Percent(engagement_slider)>>
          /\ view.sidebar = "success"
    /\ SliderSum # 100 =>
          /\ view.kind # "results"
          /\ df_scored = <<>> /\ df_ranked = <<>>
          /\ view.sidebar = "error"
          /\ uploaded_file.present => view.kind = "warning"

\* With a file loaded, the sliders have been moved one at a time from
\* 40/40/20 to 100/0/0, through positions that do not sum to 100, and the
\* results are shown again.
C16_Witness ==
    /\ view.kind = "results"
    /\ academic_slider = 100
    /\ financial_slider = 0
    /\ engagement_slider = 0
    /\ Len(df_ranked) >= 1
    /\ Weights = <<1000000, 0, 0>>

---------------------------------------------------------------------------
(* ScholarshipDataProcessor.preprocess_data *)

\* .map({'Yes': 1.0, 'No': 0.0}): any other value becomes NaN.
yes_no_map(v) == IF v = "Yes" THEN 1 ELSE IF v = "No" THEN 0 ELSE NaN

\* .map(education_map)
education_map(v) ==
    IF v = "High School" THEN 1
    ELSE IF v = "Undergraduate" THEN 2
    ELSE IF v = "Postgraduate" THEN 3
    ELSE NaN

\* Series.min() and Series.max(): NaN is skipped, and is the result when no
\* number is left.
ColumnValues(df, c) == {df[i][c] : i \in 1..Len(df)} \ {NaN}

ColumnMin(df, c) ==
    IF ColumnValues(df, c) = {} THEN NaN
    ELSE CHOOSE x \in ColumnValues(df, c) : \A y \in ColumnValues(df, c) : x <= y

ColumnMax(df, c) ==
    IF ColumnValues(df, c) = {} THEN NaN
    ELSE CHOOSE x \in ColumnValues(df, c) : \A y \in ColumnValues(df, c) : x >= y

\* The (min_val, max_val) of each feature (lines 104-113), in raw units.
numerical_features(df) ==
    [Hours_Studied |-> <<0, 10>>,
     Previous_Scores |-> <<0, 100>>,
     Sleep_Hours |-> <<0, 10>>,
     Sample_Question_Papers_Practiced |-> <<0, 10>>,
     Performance_Index |-> <<0, 100>>,
     family_income |-> <<ColumnMin(df, "family_income"),
                         ColumnMax(df, "family_income")>>,
     attendance_percentage |-> <<60, 100>>,
     parent_education_score |-> <<1, 3>>]

\* f'{feature}_normalized'
NormalizedColumn ==
    [Hours_Studied |-> "Hours_Studied_normalized",
     Previous_Scores |-> "Previous_Scores_normalized",
     Sleep_Hours |-> "Sleep_Hours_normalized",
     Sample_Question_Papers_Practiced |->
         "Sample_Question_Papers_Practiced_normalized",
     Performance_Index |-> "Performance_Index_normalized",
     family_income |-> "family_income_normalized",
     attendance_percentage |-> "attendance_percentage_normalized",
     parent_education_score |-> "parent_education_score_normalized"]

\* The value a feature with a degenerate range gets (line 122), and the
\* income need of a table without normalized income (line 130), in
\* hundredths.
neutral_value == 5000

\* .clip(0, 100), in hundredths.
Clip(x) == IF x < 0 THEN 0 ELSE IF x > Hundred THEN Hundred ELSE x

\* The min-max scaling without the clip.
NormalizeUnclipped(x, min_val, max_val) ==
    IF GT(max_val, min_val)
    THEN IF IsNaN(x) THEN NaN
         ELSE RoundHalfEven((x - min_val) * Hundred, max_val - min_val)
    ELSE neutral_value

\* Lines 117-122 for one value: ((x - min) / (max - min) * 100).clip(0, 100)
\* when max > min, else 50; in hundredths, to the nearest hundredth.  A
\* missing value stays missing through the scaling and the clip.
Normalize(x, min_val, max_val) ==
    IF GT(max_val, min_val)
    THEN IF IsNaN(x) THEN NaN
         ELSE Clip(RoundHalfEven((x - min_val) * Hundred, max_val - min_val))
    ELSE neutral_value

\* The columns preprocess_data indexes without asking whether they exist
\* (lines 83, 94, 98, 110).
IndexedColumns ==
    {"Extracurricular_Activities", "parent_education", "previous_scholarship",
     "family_income"}

\* The columns of a raw table; a table without rows is taken to have all.
RawColumns(df) ==
    IF Len(df) = 0
    THEN IndexedColumns \cup (DOMAIN NormalizedColumn \ {"parent_education_score"})
    ELSE DOMAIN df[1]

\* Row i of preprocess_data(df): the raw columns, the three encodings, the
\* normalized column of every feature present, and income_need_score.
PreprocessRow(df, i) ==
    LET encoded ==
            [extracurricular_score |->
                 yes_no_map(df[i].Extracurricular_Activities),
             parent_education_score |-> education_map(df[i].parent_education),
             previous_scholarship_score |->
                 yes_no_map(df[i].previous_scholarship)] @@ df[i]
        ranges == numerical_features(df)
        present == {f \in DOMAIN ranges : f \in DOMAIN encoded}
        normalized ==
            [n \in {NormalizedColumn[f] : f \in present} |->
                LET f == CHOOSE g \in present : NormalizedColumn[g] = n
                IN  Normalize(encoded[f], ranges[f][1], ranges[f][2])]
        need == IF "family_income_normalized" \in DOMAIN normalized
                THEN IF IsNaN(normalized.family_income_normalized) THEN NaN
                     ELSE Hundred - normalized.family_income_normalized
                ELSE neutral_value
    IN  [income_need_score |-> need] @@ normalized @@ encoded

preprocess_data(df) == [i \in 1..Len(df) |-> PreprocessRow(df, i)]

---------------------------------------------------------------------------
(* Preprocessing, and the engine on what it yields. *)

\* A row of the enhanced raw table: the numeric columns in whole units,
\* NaN for an empty cell, and the three categorical columns.
RawApplicant(hours, prev, sleep, papers, perf, income, att, extra, ped, sch) ==
    [Hours_Studied |-> hours,
     Previous_Scores |-> prev,
     Sleep_Hours |-> sleep,
     Sample_Question_Papers_Practiced |-> papers,
     Performance_Index |-> perf,
     family_income |-> income,
     attendance_percentage |-> att,
     Extracurricular_Activities |-> extra,
     parent_education |-> ped,
     previous_scholarship |-> sch]

\* Every value inside its nominal range.
TypicalRaw ==
    RawApplicant(5, 80, 7, 5, 70, 50000, 85, "Yes", "Undergraduate", "Yes")

\* Every value above its nominal range; the highest income.
AboveRangeRaw ==
    RawApplicant(12, 150, 11, 12, 120, 200000, 110, "No", "Postgraduate", "No")

\* Values at or below the bottom of their range; the lowest income.
BelowRangeRaw ==
    RawApplicant(-1, -5, 0, 0, -10, 15000, 50, "No", "High School", "No")

\* The income of TypicalRaw with other marks.
SameIncomeRaw ==
    RawApplicant(3, 33, 6, 2, 33, 50000, 77, "Yes", "High School", "No")

\* Empty cells and categories outside the mappings.
MissingRaw ==
    RawApplicant(NaN, 80, 7, 5, 70, NaN, 85, "Maybe", "Doctorate", "Yes")

RawApplicants ==
    {TypicalRaw, AboveRangeRaw, BelowRangeRaw, SameIncomeRaw, MissingRaw}

RawTables ==
    {MakeTable(rows) :
        rows \in UNION {[1..k -> RawApplicants] : k \in 0..MaxRawRows}}

\* Raw tables from which a column is absent.
RawIncompleteTables ==
    {MakeTable(<<WithoutColumn(TypicalRaw, c)>>) :
        c \in {"Performance_Index", "Sleep_Hours", "family_income"}}

\* df_processed = processor.preprocess_data(df_enhanced): the work is done
\* on df.copy() (line 79); an absent column that is indexed directly
\* raises KeyError.
Preprocess ==
    /\ "df_processed" \notin have
    /\ IF IndexedColumns \subseteq RawColumns(df_enhanced)
          THEN /\ df_processed' = preprocess_data(df_enhanced)
               /\ have' = have \cup {"df_processed"}
               /\ error' = NoError
          ELSE /\ error' = [raised |-> TRUE, kind |-> "KeyError", total |-> 0]
               /\ UNCHANGED <<df_processed, have>>
    /\ UNCHANGED <<dss, df_scored, df_decision, df_ranked, explanation,
                   tie_order, numpy_promotion, init_args>>
    /\ UNCHANGED appVars

InitPre ==
    /\ df_enhanced \in RawTables \cup RawIncompleteTables
    /\ df_processed = <<>>
    /\ dss = NoDss
    /\ error = NoError
    /\ have = {}
    /\ df_scored = <<>>
    /\ df_decision = <<>>
    /\ df_ranked = <<>>
    /\ explanation = NoExplanation
    /\ tie_order = "input"
    /\ numpy_promotion = "legacy"
    /\ init_args = <<>>
    /\ uploaded_file = NoFile
    /\ session = NoSession
    /\ academic_slider = 40
    /\ financial_slider = 40
    /\ engagement_slider = 20
    /\ full_threshold = 80
    /\ partial_threshold = 60
    /\ view = NoView

\* The caller preprocesses its table, then constructs an engine and scores.
NextPre ==
    \/ Preprocess
    \/ "df_processed" \in have /\ EngineConstruct
    \/ "df_processed" \in have /\ CalculateFinalScore

SpecPre == InitPre /\ [][NextPre]_vars

---------------------------------------------------------------------------
(* Properties of preprocessing (under SpecPre). *)

\* The raw numeric columns of the enhanced table.
RawNumericColumns ==
    {"Hours_Studied", "Previous_Scores", "Sleep_Hours",
     "Sample_Question_Papers_Practiced", "Performance_Index", "family_income",
     "attendance_percentage"}

\* The numbers in the family_income column of the raw table.
Incomes == {df_enhanced[i].family_income : i \in 1..Len(df_enhanced)} \ {NaN}

\* C17: in a preprocessed table, for every applicant, every *_normalized
\* value computed from a raw number lies in [0, 100], whatever the number;
\* when the family incomes do not span a range (all equal), every row's
\* family_income_normalized is the neutral 50, and otherwise the lowest
\* income gets 0 and the highest 100; and income_need_score is
\* 100 - family_income_normalized, so it lies in [0, 100] too.
C17_NormalizedInRange ==
    "df_processed" \in have =>
        \A i \in 1..Len(df_processed) :
            LET raw == df_enhanced[i]
                row == df_processed[i]
            IN  /\ \A f \in RawNumericColumns \cap DOMAIN raw :
                      raw[f] # NaN =>
                          /\ row[NormalizedColumn[f]] # NaN
                          /\ 0 <= row[NormalizedColumn[f]]
                          /\ row[NormalizedColumn[f]] <= 10000
                /\ row.parent_education_score # NaN =>
                      row.parent_education_score_normalized
                          = (row.parent_education_score - 1) * 5000
                /\ Cardinality(Incomes) <= 1 =>
                      row.family_income_normalized = 5000
                /\ ( /\ Cardinality(Incomes) >= 2
                      /\ raw.family_income # NaN
                      /\ \A x \in Incomes : raw.family_income <= x )
                      => row.family_income_normalized = 0
                /\ ( /\ Cardinality(Incomes) >= 2
                      /\ raw.family_income # NaN
                      /\ \A x \in Incomes : raw.family_income >= x )
                      => row.family_income_normalized = 10000
                /\ (raw.family_income # NaN \/ Cardinality(Incomes) <= 1) =>
                      /\ row.income_need_score
                            = 10000 - row.family_income_normalized
                      /\ 0 <= row.income_need_score
                      /\ row.income_need_score <= 10000

\* A table of two applicants with the same income and a previous score of
\* 150 has been preprocessed: the score is clipped to 100 and the income
\* and the income need are 50.
C17_Witness ==
    /\ "df_processed" \in have
    /\ Len(df_processed) = 2
    /\ df_enhanced[1].Previous_Scores = 150
    /\ df_enhanced[1].family_income = df_enhanced[2].family_income
    /\ df_processed[1].Previous_Scores_normalized = 10000
    /\ df_processed[1].family_income_normalized = 5000
    /\ df_processed[2].income_need_score = 5000

===========================================================================
